---- MODULE Spec2Model ----
(***************************************************************************)
(* Model of the chess engine of src/chess.py (class ChessGame): the board, *)
(* the move generator, the attack detector and the click handler.          *)
(* Rows and columns are 0..7 as in the source; row 0 is Black's back rank. *)
(* Every method is an operator over the part of the object it reads and    *)
(* returns what it writes; a method that can raise returns a `raised` flag *)
(* with the board as it stood when the exception left the method.          *)
(***************************************************************************)
EXTENDS Integers, Sequences, FiniteSets, TLC

VARIABLES board, turn, selected_piece, valid_moves, last_move,
          white_king_pos, black_king_pos, check, game_over,
          raised,      \* an exception left handle_click (the program ended)
          moves,       \* number of make_move calls so far
          free_moves,  \* how many of them were made in free play
          pending,     \* the clicks the user still makes: recorded clicks to
                       \* be replayed, then possibly free play
          probe        \* the last direct call of is_square_under_attack: its
                       \* arguments and its answer (None before any call)

vars == <<board, turn, selected_piece, valid_moves, last_move,
          white_king_pos, black_king_pos, check, game_over,
          raised, moves, free_moves, pending, probe>>

BOARD_SIZE == 8

\* Free play explores every click sequence that commits at most MaxMoves moves
\* after the recorded clicks of the session.
MaxMoves == 1

Idx == 0 .. (BOARD_SIZE - 1)

None == <<>>

----------------------------------------------------------------------------
(* str methods used on the one-character piece encoding *)

isupper(p) == p \in {"P", "N", "B", "R", "Q", "K"}

islower(p) == p \in {"p", "n", "b", "r", "q", "k"}

lower(p) ==
  CASE p = "P" -> "p" [] p = "N" -> "n" [] p = "B" -> "b"
    [] p = "R" -> "r" [] p = "Q" -> "q" [] p = "K" -> "k"
    [] OTHER -> p

upper(p) ==
  CASE p = "p" -> "P" [] p = "n" -> "N" [] p = "b" -> "B"
    [] p = "r" -> "R" [] p = "q" -> "Q" [] p = "k" -> "K"
    [] OTHER -> p

OnBoard(row, col) == 0 <= row /\ row < 8 /\ 0 <= col /\ col < 8

\* (x in list) for a Python list modelled as a sequence
InList(x, list) == \E i \in 1 .. Len(list) : list[i] = x

\* 'black' if colour == 'white' else 'white'
other_color(color) == IF color = "white" THEN "black" ELSE "white"

\* the piece belongs to the given colour
OwnedBy(p, color) ==
  (color = "white" /\ isupper(p)) \/ (color = "black" /\ islower(p))

----------------------------------------------------------------------------
(* initialize_board *)

back_rank == <<"r", "n", "b", "q", "k", "b", "n", "r">>

initialize_board ==
  [row \in Idx |->
    [col \in Idx |->
      CASE row = 0 -> back_rank[col + 1]
        [] row = 1 -> "p"
        [] row = 6 -> "P"
        [] row = 7 -> upper(back_rank[col + 1])
        [] OTHER -> ""]]

----------------------------------------------------------------------------
(* Board predicates *)

is_empty(b, row, col) ==
  IF OnBoard(row, col) THEN b[row][col] = "" ELSE FALSE

\* a test that takes every piece for an opponent's
is_any_piece(b, row, col, piece) ==
  IF OnBoard(row, col) THEN b[row][col] # "" ELSE FALSE

is_opponent(b, row, col, piece) ==
  IF OnBoard(row, col) /\ b[row][col] # ""
  THEN (isupper(b[row][col]) /\ islower(piece))
       \/ (islower(b[row][col]) /\ isupper(piece))
  ELSE FALSE

knight_moves == << <<-2, -1>>, <<-2, 1>>, <<-1, -2>>, <<-1, 2>>,
                   <<1, -2>>, <<1, 2>>, <<2, -1>>, <<2, 1>> >>

\* for dr in [-1, 0, 1]: for dc in [-1, 0, 1]: skip (0, 0)
king_steps == << <<-1, -1>>, <<-1, 0>>, <<-1, 1>>, <<0, -1>>,
                 <<0, 1>>, <<1, -1>>, <<1, 0>>, <<1, 1>> >>

diagonal_dirs == << <<-1, -1>>, <<-1, 1>>, <<1, -1>>, <<1, 1>> >>

straight_dirs == << <<-1, 0>>, <<1, 0>>, <<0, -1>>, <<0, 1>> >>

\* directions += ... for bishop/queen, then for rook/queen
slide_directions(piece) ==
  (IF lower(piece) = "b" \/ lower(piece) = "q" THEN diagonal_dirs ELSE <<>>)
  \o (IF lower(piece) = "r" \/ lower(piece) = "q" THEN straight_dirs ELSE <<>>)

\* the offsets of a list applied to (row, col), in list order
Targets(row, col, offsets) ==
  [k \in 1 .. Len(offsets) |-> <<row + offsets[k][1], col + offsets[k][2]>>]

----------------------------------------------------------------------------
(* get_pseudo_legal_moves: movement patterns for attack detection *)

RECURSIVE pseudo_ray(_, _, _, _, _, _)
\* for i in range(1, 8): the squares of one ray up to and including the
\* first occupied one
pseudo_ray(b, row, col, dr, dc, i) ==
  IF i >= 8 \/ ~OnBoard(row + dr * i, col + dc * i) THEN <<>>
  ELSE IF b[row + dr * i][col + dc * i] # ""
       THEN << <<row + dr * i, col + dc * i>> >>
       ELSE << <<row + dr * i, col + dc * i>> >>
            \o pseudo_ray(b, row, col, dr, dc, i + 1)

RECURSIVE pseudo_slides(_, _, _, _, _)
\* for dr, dc in directions: the rays in the order of the list
pseudo_slides(b, row, col, directions, k) ==
  IF k > Len(directions) THEN <<>>
  ELSE pseudo_ray(b, row, col, directions[k][1], directions[k][2], 1)
       \o pseudo_slides(b, row, col, directions, k + 1)

\* a pawn that also attacks the square straight ahead
pawn_attacks_ahead(row, col, piece) ==
  LET direction == IF isupper(piece) THEN -1 ELSE 1
  IN  SelectSeq(<< <<row + direction, col - 1>>, <<row + direction, col>>,
                   <<row + direction, col + 1>> >>,
                LAMBDA t : 0 <= t[2] /\ t[2] < 8)

\* the two diagonal squares ahead of a pawn whose column is on the board
pawn_attacks(row, col, piece) ==
  LET direction == IF isupper(piece) THEN -1 ELSE 1
  IN  SelectSeq(<< <<row + direction, col - 1>>, <<row + direction, col + 1>> >>,
                LAMBDA t : 0 <= t[2] /\ t[2] < 8)

get_pseudo_legal_moves(b, row, col, piece) ==
  IF lower(piece) = "p" THEN pawn_attacks(row, col, piece)
  ELSE IF lower(piece) = "n"
  THEN SelectSeq(Targets(row, col, knight_moves),
                 LAMBDA t : OnBoard(t[1], t[2]))
  ELSE pseudo_slides(b, row, col, slide_directions(piece), 1)
       \o (IF lower(piece) = "k"
           THEN SelectSeq(Targets(row, col, king_steps),
                          LAMBDA t : OnBoard(t[1], t[2]))
           ELSE <<>>)

----------------------------------------------------------------------------
(* is_square_under_attack: returns the answer and the board it leaves *)

\* the moves of the attacker at (r, c) that are matched against the target
attacker_moves(b, r, c, piece) ==
  IF lower(piece) = "p" THEN pawn_attacks(r, c, piece)
  ELSE get_pseudo_legal_moves(b, r, c, piece)

\* the squares in the order of the double loop over rows and columns,
\* square k being (k \div 8, k % 8)
row_major == [k \in 1 .. 64 |-> k - 1]

\* the squares on which the body of the attack loop can do something: the
\* loop writes the target square only, so these are the squares that hold a
\* piece of by_color when the loop starts, and the target square
attack_order(b, row, col, by_color) ==
  SelectSeq(row_major,
            LAMBDA k : OwnedBy(b[k \div 8][k % 8], by_color)
                       \/ k = 8 * row + col)

\* a loop body whose "return True" comes before the target square is
\* restored
attack_visit_unrestored(b, row, col, by_color, k) ==
  LET piece == b[k \div 8][k % 8]
      emptied == [b EXCEPT ![row][col] = ""]
      hit == InList(<<row, col>>, attacker_moves(emptied, k \div 8, k % 8, piece))
  IN  IF piece # "" /\ OwnedBy(piece, by_color)
      THEN [result |-> hit, board |-> IF hit THEN emptied ELSE b]
      ELSE [result |-> FALSE, board |-> b]

\* the body of the double loop for square k = 8 * r + c
attack_visit(b, row, col, by_color, k) ==
  LET r == k \div 8
      c == k % 8
      piece == b[r][c]
      original_piece == b[row][col]
      emptied == [b EXCEPT ![row][col] = ""]
      pseudo_moves == attacker_moves(emptied, r, c, piece)
      restored == [emptied EXCEPT ![row][col] = original_piece]
  IN  IF piece # "" /\ OwnedBy(piece, by_color)
      THEN [result |-> InList(<<row, col>>, pseudo_moves), board |-> restored]
      ELSE [result |-> FALSE, board |-> b]

RECURSIVE attack_scan(_, _, _, _, _, _, _)

\* the rest of the loop after its first part: "return True" ends it
attack_rest(first, row, col, by_color, squares, lo, hi) ==
  IF first.result THEN first
  ELSE attack_scan(first.board, row, col, by_color, squares, lo, hi)

\* the double loop over r and c on the lo-th to hi-th of `squares`, run as
\* the loop over the first half of them followed by the loop over the rest
attack_scan(b, row, col, by_color, squares, lo, hi) ==
  IF lo > hi THEN [result |-> FALSE, board |-> b]
  ELSE IF lo = hi THEN attack_visit(b, row, col, by_color, squares[lo])
  ELSE attack_rest(attack_scan(b, row, col, by_color, squares,
                               lo, (lo + hi) \div 2),
                   row, col, by_color, squares, (lo + hi) \div 2 + 1, hi)

is_square_under_attack(b, row, col, by_color) ==
  attack_scan(b, row, col, by_color, attack_order(b, row, col, by_color),
              1, Len(attack_order(b, row, col, by_color)))

----------------------------------------------------------------------------
(* would_be_in_check: speculative move, king search, attack query, undo *)

\* the first square in row-major order that holds `king`, or None
find_king(b, king) ==
  LET found == {k \in 0 .. 63 : b[k \div 8][k % 8] = king}
  IN  IF found = {} THEN None
      ELSE LET k == CHOOSE x \in found : \A y \in found : x <= y
           IN  <<k \div 8, k % 8>>

\* the board after the two assignments that simulate the move
simulate_move(b, start_row, start_col, end_row, end_col) ==
  LET placed == [b EXCEPT ![end_row][end_col] = b[start_row][start_col]]
  IN  [placed EXCEPT ![start_row][start_col] = ""]

\* the board after the two assignments that undo the move
undo_move(b, start_row, start_col, end_row, end_col, captured_piece) ==
  LET back == [b EXCEPT ![start_row][start_col] = b[end_row][end_col]]
  IN  [back EXCEPT ![end_row][end_col] = captured_piece]

\* "Undo the move" and "return in_check", att being what the attack query
\* answered and the board it left
undo_and_return(att, start_row, start_col, end_row, end_col, captured_piece) ==
  [raised |-> FALSE, in_check |-> att.result,
   board |-> undo_move(att.board, start_row, start_col, end_row, end_col,
                       captured_piece)]

would_be_in_check(b, t, start_row, start_col, end_row, end_col, piece) ==
  LET captured_piece == b[end_row][end_col]
      simulated == simulate_move(b, start_row, start_col, end_row, end_col)
      king == IF t = "white" THEN "K" ELSE "k"
      king_pos == find_king(simulated, king)
  IN  IF king_pos = None
      THEN \* king_pos[0] raises TypeError; the undo is never reached
           [raised |-> TRUE, in_check |-> FALSE, board |-> simulated]
      ELSE undo_and_return(
             is_square_under_attack(simulated, king_pos[1], king_pos[2],
                                    other_color(t)),
             start_row, start_col, end_row, end_col, captured_piece)

----------------------------------------------------------------------------
(* get_valid_moves *)

\* a pawn that never steps two squares
pawn_moves_one_step(b, row, col, piece) ==
  LET direction == IF isupper(piece) THEN -1 ELSE 1
  IN  (IF is_empty(b, row + direction, col)
       THEN << <<row + direction, col>> >> ELSE <<>>)
      \o SelectSeq(<< <<row + direction, col - 1>>,
                      <<row + direction, col + 1>> >>,
                   LAMBDA t : is_opponent(b, t[1], t[2], piece))

pawn_moves(b, row, col, piece) ==
  LET direction == IF isupper(piece) THEN -1 ELSE 1
      start_row == IF isupper(piece) THEN 6 ELSE 1
  IN  (IF is_empty(b, row + direction, col)
       THEN << <<row + direction, col>> >>
            \o (IF row = start_row /\ is_empty(b, row + 2 * direction, col)
                THEN << <<row + 2 * direction, col>> >>
                ELSE <<>>)
       ELSE <<>>)
      \o SelectSeq(<< <<row + direction, col - 1>>,
                      <<row + direction, col + 1>> >>,
                   LAMBDA t : is_opponent(b, t[1], t[2], piece))

\* the destinations of a list that are on the board and empty or opponent's
step_moves(b, row, col, piece, offsets) ==
  SelectSeq(Targets(row, col, offsets),
            LAMBDA t : OnBoard(t[1], t[2])
                       /\ (is_empty(b, t[1], t[2])
                           \/ is_opponent(b, t[1], t[2], piece)))

RECURSIVE valid_ray(_, _, _, _, _, _, _)
\* one ray: empty squares, then the first opponent piece if any
valid_ray(b, row, col, dr, dc, i, piece) ==
  IF i >= 8 \/ ~OnBoard(row + dr * i, col + dc * i) THEN <<>>
  ELSE IF is_empty(b, row + dr * i, col + dc * i)
       THEN << <<row + dr * i, col + dc * i>> >>
            \o valid_ray(b, row, col, dr, dc, i + 1, piece)
       ELSE IF is_opponent(b, row + dr * i, col + dc * i, piece)
            THEN << <<row + dr * i, col + dc * i>> >>
            ELSE <<>>

RECURSIVE valid_slides(_, _, _, _, _, _)
valid_slides(b, row, col, piece, directions, k) ==
  IF k > Len(directions) THEN <<>>
  ELSE valid_ray(b, row, col, directions[k][1], directions[k][2], 1, piece)
       \o valid_slides(b, row, col, piece, directions, k + 1)

\* the piece types whose branch returns `moves` before the filter loop
returns_unfiltered(piece) == lower(piece) \in {"p", "n", "k"}

\* the list `moves` built by the movement rules, before any filtering
movement_moves(b, row, col, piece) ==
  IF lower(piece) = "p" THEN pawn_moves(b, row, col, piece)
  ELSE IF lower(piece) = "n" THEN step_moves(b, row, col, piece, knight_moves)
  ELSE valid_slides(b, row, col, piece, slide_directions(piece), 1)
       \o (IF lower(piece) = "k"
           THEN step_moves(b, row, col, piece, king_steps)
           ELSE <<>>)

\* a filter loop that keeps every move, whatever would_be_in_check answers
filter_visit_keep_all(w, move, kept) ==
  IF w.raised
  THEN [raised |-> TRUE, moves |-> <<>>, board |-> w.board]
  ELSE [raised |-> FALSE, board |-> w.board, moves |-> Append(kept, move)]

\* the body of the filter loop for one move, w being what would_be_in_check
\* returned for it: the move is kept unless it leaves the king in check
filter_visit(w, move, kept) ==
  IF w.raised
  THEN [raised |-> TRUE, moves |-> <<>>, board |-> w.board]
  ELSE [raised |-> FALSE, board |-> w.board,
        moves |-> IF w.in_check THEN kept ELSE Append(kept, move)]

RECURSIVE filter_moves(_, _, _, _, _, _, _, _, _)

\* the rest of the loop after its first part: an exception ends it
filter_rest(first, t, row, col, piece, candidates, lo, hi) ==
  IF first.raised THEN first
  ELSE filter_moves(first.board, t, row, col, piece, candidates, lo, hi,
                    first.moves)

\* the loop over the lo-th to hi-th of `moves`, run as the loop over the
\* first half of them followed by the loop over the rest; `kept` is
\* valid_moves so far
filter_moves(b, t, row, col, piece, candidates, lo, hi, kept) ==
  IF lo > hi THEN [raised |-> FALSE, moves |-> kept, board |-> b]
  ELSE IF lo = hi
  THEN filter_visit(would_be_in_check(b, t, row, col, candidates[lo][1],
                                      candidates[lo][2], piece),
                    candidates[lo], kept)
  ELSE filter_rest(filter_moves(b, t, row, col, piece, candidates,
                                lo, (lo + hi) \div 2, kept),
                   t, row, col, piece, candidates, (lo + hi) \div 2 + 1, hi)

\* a generator that does not ask whose turn it is
get_valid_moves_any_side(b, t, row, col) ==
  IF b[row][col] = ""
  THEN [raised |-> FALSE, moves |-> <<>>, board |-> b]
  ELSE [raised |-> FALSE, board |-> b,
        moves |-> movement_moves(b, row, col, b[row][col])]

get_valid_moves(b, t, row, col) ==
  LET piece == b[row][col]
  IN  IF piece = "" \/ (isupper(piece) /\ t = "black")
         \/ (islower(piece) /\ t = "white")
      THEN [raised |-> FALSE, moves |-> <<>>, board |-> b]
      ELSE IF returns_unfiltered(piece)
      THEN [raised |-> FALSE, moves |-> movement_moves(b, row, col, piece),
            board |-> b]
      ELSE filter_moves(b, t, row, col, piece,
                        movement_moves(b, row, col, piece),
                        1, Len(movement_moves(b, row, col, piece)), <<>>)

----------------------------------------------------------------------------
(* The object: `self` is the record of the fields the engine reads/writes *)

Self ==
  [board |-> board, turn |-> turn, selected_piece |-> selected_piece,
   valid_moves |-> valid_moves, last_move |-> last_move,
   white_king_pos |-> white_king_pos, black_king_pos |-> black_king_pos,
   check |-> check, game_over |-> game_over, raised |-> raised,
   moves |-> moves]

(* update_game_state *)

\* if self.get_valid_moves(row, col): has_legal_move = True
legal_found(gv) ==
  [raised |-> gv.raised, board |-> gv.board,
   has_legal_move |-> ~gv.raised /\ Len(gv.moves) > 0]

\* the body of the double loop for square k = 8 * row + col
legal_visit(b, t, k) ==
  IF b[k \div 8][k % 8] # "" /\ OwnedBy(b[k \div 8][k % 8], t)
  THEN legal_found(get_valid_moves(b, t, k \div 8, k % 8))
  ELSE [raised |-> FALSE, board |-> b, has_legal_move |-> FALSE]

RECURSIVE legal_move_scan(_, _, _, _)

\* the rest of the loop after its first part: the breaks (and an
\* exception) end it
legal_rest(first, t, lo, hi) ==
  IF first.raised \/ first.has_legal_move THEN first
  ELSE legal_move_scan(first.board, t, lo, hi)

\* the double loop that looks for a piece of the side to move with a
\* non-empty get_valid_moves, on squares lo to hi, run as the loop over the
\* first half of them followed by the loop over the rest
legal_move_scan(b, t, lo, hi) ==
  IF lo > hi THEN [raised |-> FALSE, board |-> b, has_legal_move |-> FALSE]
  ELSE IF lo = hi THEN legal_visit(b, t, lo)
  ELSE legal_rest(legal_move_scan(b, t, lo, (lo + hi) \div 2),
                  t, (lo + hi) \div 2 + 1, hi)

\* a check flag that is left as it was instead of being recomputed
check_of_stale(self) == [result |-> self.check, board |-> self.board]

\* self.check = self.is_square_under_attack(king_pos..., opponent)
check_of(self) ==
  LET king_pos == IF self.turn = "white" THEN self.white_king_pos
                  ELSE self.black_king_pos
  IN  is_square_under_attack(self.board, king_pos[1], king_pos[2],
                             other_color(self.turn))

\* if not has_legal_move: self.game_over = True
game_over_after(game_over_before, has_legal_move) ==
  IF ~has_legal_move THEN TRUE ELSE game_over_before

\* the object once self.check is assigned
with_check(self, att) ==
  [self EXCEPT !.check = att.result, !.board = att.board]

\* the object once the scan for a legal move has ended or raised
with_game_over(self, scan) ==
  IF scan.raised
  THEN [self EXCEPT !.board = scan.board, !.raised = TRUE]
  ELSE [self EXCEPT !.board = scan.board,
                    !.game_over = game_over_after(self.game_over,
                                                  scan.has_legal_move)]

\* a scan that stops after the upper half of the board
scan_upper_half(self) ==
  with_game_over(self, legal_move_scan(self.board, self.turn, 0, 31))

\* "Check for checkmate or stalemate"
scan_for_legal_move(self) ==
  with_game_over(self, legal_move_scan(self.board, self.turn, 0, 63))

update_game_state(self) ==
  scan_for_legal_move(with_check(self, check_of(self)))

(* make_move *)

\* a turn that is never handed over
switch_turn_stuck(t) == t

\* self.turn = 'black' if self.turn == 'white' else 'white'
switch_turn(t) == IF t = "white" THEN "black" ELSE "white"

\* a move after which every piece is what it was, pawns included
arriving_piece_unpromoted(piece, end_row) == piece

\* the piece that stands on the destination after the move and promotion
arriving_piece(piece, end_row) ==
  IF lower(piece) = "p" /\ (end_row = 0 \/ end_row = 7)
  THEN (IF isupper(piece) THEN "Q" ELSE "q")
  ELSE piece

\* the board after "Move the piece" and "Pawn promotion"
move_piece(b, start_row, start_col, end_row, end_col) ==
  LET piece == b[start_row][start_col]
      placed == [b EXCEPT ![end_row][end_col] = piece]
      cleared == [placed EXCEPT ![start_row][start_col] = ""]
  IN  [cleared EXCEPT ![end_row][end_col] = arriving_piece(piece, end_row)]

\* make_move up to and including "Switch turns"
apply_move(self, start_row, start_col, end_row, end_col) ==
  LET piece == self.board[start_row][start_col]
  IN  [self EXCEPT
         !.white_king_pos = IF piece = "K" THEN <<end_row, end_col>> ELSE @,
         !.black_king_pos = IF lower(piece) = "k" /\ piece # "K"
                            THEN <<end_row, end_col>> ELSE @,
         !.last_move = << <<start_row, start_col>>, <<end_row, end_col>> >>,
         !.board = move_piece(self.board, start_row, start_col,
                              end_row, end_col),
         !.turn = switch_turn(self.turn),
         !.moves = self.moves + 1]

make_move(self, start_row, start_col, end_row, end_col) ==
  update_game_state(apply_move(self, start_row, start_col, end_row, end_col))

(* handle_click *)

\* a handler that goes on after the game is over
click_never_ignored(self) == FALSE

\* if self.game_over: return
click_ignored(self) == self.game_over

\* the clicked square holds a piece of the side to move
own_piece_clicked(self, row, col) ==
  (self.turn = "white" /\ isupper(self.board[row][col]))
  \/ (self.turn = "black" /\ islower(self.board[row][col]))

\* self.selected_piece = (row, col); self.valid_moves = get_valid_moves(...)
\* self.valid_moves = ..., gv being what get_valid_moves returned
with_valid_moves(self, gv) ==
  IF gv.raised
  THEN [self EXCEPT !.board = gv.board, !.raised = TRUE]
  ELSE [self EXCEPT !.board = gv.board, !.valid_moves = gv.moves]

select_piece(self, row, col) ==
  with_valid_moves([self EXCEPT !.selected_piece = <<row, col>>],
                   get_valid_moves(self.board, self.turn, row, col))

\* a handler that keeps the selection and its moves after the move
keep_selection(made) == made

\* self.selected_piece = None; self.valid_moves = [], which are not reached
\* when make_move raised
clear_selection(made) ==
  IF made.raised THEN made
  ELSE [made EXCEPT !.selected_piece = None, !.valid_moves = <<>>]

handle_click(self, row, col) ==
  IF click_ignored(self) THEN self
  ELSE IF self.selected_piece # None
  THEN IF InList(<<row, col>>, self.valid_moves)
       THEN clear_selection(make_move(self, self.selected_piece[1],
                                      self.selected_piece[2], row, col))
       ELSE IF own_piece_clicked(self, row, col)
       THEN select_piece(self, row, col)
       ELSE [self EXCEPT !.selected_piece = None, !.valid_moves = <<>>]
  ELSE IF own_piece_clicked(self, row, col)
  THEN select_piece(self, row, col)
  ELSE self

----------------------------------------------------------------------------
(* The user's clicks: recorded sessions that are replayed click by click.  *)
(* A session that ends with FreePlay goes on with clicks on any square.    *)

FreePlay == <<-1, -1>>

\* any click from the first one on
OpeningSession == <<FreePlay>>

\* 1.f3 e5 2.g4 Qh4, then any click
FoolsMateOpenSession ==
  << <<6, 5>>, <<5, 5>>, <<1, 4>>, <<3, 4>>, <<6, 6>>, <<4, 6>>,
     <<0, 3>>, <<4, 7>>, FreePlay >>

\* 1.f3 e5 2.g4 Qh4 3.a3 Qxe1, then the bishop on f1 is clicked
FoolsMateSession ==
  << <<6, 5>>, <<5, 5>>, <<1, 4>>, <<3, 4>>, <<6, 6>>, <<4, 6>>,
     <<0, 3>>, <<4, 7>>, <<6, 0>>, <<5, 0>>, <<4, 7>>, <<7, 4>>,
     <<7, 5>> >>

\* Sam Loyd's ten-move stalemate, then the pinned pawn on f6 is pushed
LoydStalemateSession ==
  << <<6, 4>>, <<5, 4>>, <<1, 0>>, <<3, 0>>, <<7, 3>>, <<3, 7>>,
     <<0, 0>>, <<2, 0>>, <<3, 7>>, <<3, 0>>, <<1, 7>>, <<3, 7>>,
     <<6, 7>>, <<4, 7>>, <<2, 0>>, <<2, 7>>, <<3, 0>>, <<1, 2>>,
     <<1, 5>>, <<2, 5>>, <<1, 2>>, <<1, 3>>, <<0, 4>>, <<1, 5>>,
     <<1, 3>>, <<1, 1>>, <<0, 3>>, <<5, 3>>, <<1, 1>>, <<0, 1>>,
     <<5, 3>>, <<1, 7>>, <<0, 1>>, <<0, 2>>, <<1, 5>>, <<2, 6>>,
     <<0, 2>>, <<2, 4>>, <<2, 5>>, <<3, 5>> >>

\* 1.h4 e5 2.Rh3 a6 3.Rg3 a5 4.Rg6 Qxh4 5.f3 Qxe1
RookLiftSession ==
  << <<6, 7>>, <<4, 7>>, <<1, 4>>, <<3, 4>>, <<7, 7>>, <<5, 7>>,
     <<1, 0>>, <<2, 0>>, <<5, 7>>, <<5, 6>>, <<2, 0>>, <<3, 0>>,
     <<5, 6>>, <<2, 6>>, <<0, 3>>, <<4, 7>>, <<6, 5>>, <<5, 5>>,
     <<4, 7>>, <<7, 4>> >>

\* the black queen takes the white king and then every white piece but two
\* pawns, which end up blocked; three more clicks follow
QueenRaidSession ==
  << <<6, 5>>, <<5, 5>>, <<1, 4>>, <<3, 4>>, <<6, 6>>, <<4, 6>>,
     <<0, 3>>, <<4, 7>>, <<7, 6>>, <<5, 7>>, <<4, 7>>, <<7, 4>>,
     <<5, 7>>, <<7, 6>>, <<7, 4>>, <<7, 3>>, <<7, 6>>, <<5, 7>>,
     <<7, 3>>, <<7, 2>>, <<5, 7>>, <<7, 6>>, <<7, 2>>, <<7, 1>>,
     <<7, 6>>, <<5, 7>>, <<7, 1>>, <<7, 0>>, <<5, 7>>, <<7, 6>>,
     <<7, 0>>, <<6, 0>>, <<7, 6>>, <<5, 7>>, <<6, 0>>, <<6, 1>>,
     <<5, 7>>, <<7, 6>>, <<6, 1>>, <<6, 2>>, <<7, 6>>, <<5, 7>>,
     <<6, 2>>, <<6, 3>>, <<5, 7>>, <<7, 6>>, <<6, 3>>, <<6, 4>>,
     <<7, 6>>, <<5, 7>>, <<6, 4>>, <<7, 5>>, <<5, 7>>, <<7, 6>>,
     <<7, 5>>, <<7, 6>>, <<6, 7>>, <<5, 7>>, <<7, 6>>, <<7, 7>>,
     <<5, 7>>, <<4, 7>>, <<1, 6>>, <<3, 6>>, <<4, 7>>, <<3, 7>>,
     <<7, 7>>, <<3, 7>>, <<5, 5>>, <<4, 5>>, <<3, 7>>, <<4, 7>>,
     <<4, 5>>, <<3, 5>>, <<1, 5>>, <<2, 5>>, <<4, 6>>, <<3, 5>>,
     <<4, 7>> >>

\* 1.a4 b5 2.axb5 Nc6 3.b6 g5 4.h4 gxh4 5.b7 h3 6.Nf3 hxg2, then both
\* pawns step onto the empty square ahead: 7.b8 g1
QuietPromotionSession ==
  << <<6, 0>>, <<4, 0>>, <<1, 1>>, <<3, 1>>, <<4, 0>>, <<3, 1>>,
     <<0, 1>>, <<2, 2>>, <<3, 1>>, <<2, 1>>, <<1, 6>>, <<3, 6>>,
     <<6, 7>>, <<4, 7>>, <<3, 6>>, <<4, 7>>, <<2, 1>>, <<1, 1>>,
     <<4, 7>>, <<5, 7>>, <<7, 6>>, <<5, 5>>, <<5, 7>>, <<6, 6>>,
     <<1, 1>>, <<0, 1>>, <<6, 6>>, <<7, 6>> >>

\* the same twelve moves, then both pawns capture a rook: 7.bxa8 gxh1
CapturePromotionSession ==
  << <<6, 0>>, <<4, 0>>, <<1, 1>>, <<3, 1>>, <<4, 0>>, <<3, 1>>,
     <<0, 1>>, <<2, 2>>, <<3, 1>>, <<2, 1>>, <<1, 6>>, <<3, 6>>,
     <<6, 7>>, <<4, 7>>, <<3, 6>>, <<4, 7>>, <<2, 1>>, <<1, 1>>,
     <<4, 7>>, <<5, 7>>, <<7, 6>>, <<5, 5>>, <<5, 7>>, <<6, 6>>,
     <<1, 1>>, <<0, 0>>, <<6, 6>>, <<7, 7>> >>

\* 1.e4 d5 2.Bb5+ Bd7 (the bishop blocks the check) 3.a3 Bxb5 (the pinned
\* bishop takes the piece that pins it)
BishopCheckSession ==
  << <<6, 4>>, <<4, 4>>, <<1, 3>>, <<3, 3>>, <<7, 5>>, <<3, 1>>,
     <<0, 2>>, <<1, 3>>, <<6, 0>>, <<5, 0>>, <<1, 3>>, <<3, 1>> >>

Sessions == {OpeningSession, FoolsMateOpenSession, FoolsMateSession,
             LoydStalemateSession, RookLiftSession, QueenRaidSession,
             QuietPromotionSession, CapturePromotionSession,
             BishopCheckSession}

----------------------------------------------------------------------------
(* __init__ *)

Init ==
  /\ board = initialize_board
  /\ turn = "white"
  /\ selected_piece = None
  /\ valid_moves = <<>>
  /\ last_move = None
  /\ white_king_pos = <<7, 4>>
  /\ black_king_pos = <<0, 4>>
  /\ check = FALSE
  /\ game_over = FALSE
  /\ raised = FALSE
  /\ moves = 0
  /\ free_moves = 0
  /\ pending \in Sessions
  /\ probe = None

(* run: one MOUSEBUTTONDOWN event handled by handle_click(row, col) *)

\* the click is one that handle_click answers with make_move
commits_move(self, row, col) ==
  /\ ~click_ignored(self)
  /\ self.selected_piece # None
  /\ InList(<<row, col>>, self.valid_moves)

HandleClick(row, col) ==
  /\ ~raised
  /\ pending # <<>>
  /\ IF Head(pending) = FreePlay
     THEN /\ commits_move(Self, row, col) => free_moves < MaxMoves
          /\ free_moves' = IF commits_move(Self, row, col)
                           THEN free_moves + 1 ELSE free_moves
          /\ pending' = pending
     ELSE /\ Head(pending) = <<row, col>>
          /\ free_moves' = free_moves
          /\ pending' = Tail(pending)
  /\ \E after \in {handle_click(Self, row, col)} :
         /\ board' = after.board
         /\ turn' = after.turn
         /\ selected_piece' = after.selected_piece
         /\ valid_moves' = after.valid_moves
         /\ last_move' = after.last_move
         /\ white_king_pos' = after.white_king_pos
         /\ black_king_pos' = after.black_king_pos
         /\ check' = after.check
         /\ game_over' = after.game_over
         /\ raised' = after.raised
         /\ moves' = after.moves
  /\ probe' = probe

Next == \E row \in Idx, col \in Idx : HandleClick(row, col)

Spec == Init /\ [][Next]_vars

----------------------------------------------------------------------------
(* is_square_under_attack called directly, on a board given to it: the     *)
(* call is made with any target square and any colour and is then made     *)
(* again with the same arguments; `probe` keeps the arguments and the      *)
(* answer of the last call.                                                *)

\* the squares on which the pawn boards hold a white pawn, a black pawn or
\* nothing: two squares one diagonal step apart, the square on the file of
\* the first one row below it, and a square of each edge column
ProbeSquares == {<<3, 3>>, <<2, 4>>, <<4, 3>>, <<5, 0>>, <<1, 7>>}

\* the boards that hold nothing but pawns, on the probe squares
PawnBoards ==
  {[row \in Idx |->
     [col \in Idx |->
       IF <<row, col>> \in ProbeSquares THEN f[<<row, col>>] ELSE ""]] :
   f \in [ProbeSquares -> {"", "P", "p"}]}

\* the board after 1.f3 e5 2.g4 Qh4
FoolsMateBoard ==
  move_piece(move_piece(move_piece(move_piece(initialize_board,
    6, 5, 5, 5), 1, 4, 3, 4), 6, 6, 4, 6), 0, 3, 4, 7)

\* the board after 1.e4 e5 2.Nf3 Nc6 3.Bc4 Bc5
ItalianBoard ==
  move_piece(move_piece(move_piece(move_piece(move_piece(move_piece(
    initialize_board,
    6, 4, 4, 4), 1, 4, 3, 4), 7, 6, 5, 5), 0, 1, 2, 2), 7, 5, 4, 2),
    0, 5, 3, 2)

\* boards of the game, with every kind of piece on them
RichBoards == {initialize_board, FoolsMateBoard, ItalianBoard}

ProbeBoards == PawnBoards \cup RichBoards

AttackInit ==
  /\ board \in ProbeBoards
  /\ turn = "white"
  /\ selected_piece = None
  /\ valid_moves = <<>>
  /\ last_move = None
  /\ white_king_pos = <<7, 4>>
  /\ black_king_pos = <<0, 4>>
  /\ check = FALSE
  /\ game_over = FALSE
  /\ raised = FALSE
  /\ moves = 0
  /\ free_moves = 0
  /\ pending = <<>>
  /\ probe = None

\* self.is_square_under_attack(row, col, by_color)
AttackQuery(row, col, by_color) ==
  /\ probe # None =>
       (probe[1].row = row /\ probe[1].col = col
        /\ probe[1].by_color = by_color)
  /\ \E att \in {is_square_under_attack(board, row, col, by_color)} :
       /\ board' = att.board
       /\ probe' = << [row |-> row, col |-> col, by_color |-> by_color,
                       result |-> att.result] >>
  /\ UNCHANGED <<turn, selected_piece, valid_moves, last_move,
                   white_king_pos, black_king_pos, check, game_over,
                   raised, moves, free_moves, pending>>

AttackNext ==
  \E row \in Idx, col \in Idx, by_color \in {"white", "black"} :
    AttackQuery(row, col, by_color)

AttackSpec == AttackInit /\ [][AttackNext]_vars

----------------------------------------------------------------------------
(* Properties *)

\* the squares that hold a piece of the side to move
OwnSquares == {sq \in Idx \X Idx : OwnedBy(board[sq[1]][sq[2]], turn)}

\* the king of the given colour, cached position
cached_king_pos(self, color) ==
  IF color = "white" THEN self.white_king_pos ELSE self.black_king_pos

\* the given colour's king stands on board b and is attacked there
KingAttackedOn(b, color) ==
  LET king_pos == find_king(b, IF color = "white" THEN "K" ELSE "k")
  IN  /\ king_pos # None
      /\ is_square_under_attack(b, king_pos[1], king_pos[2],
                                other_color(color)).result

\* the side to move has a movement-rule move after which its king stands
\* on the board unattacked
HasSafeMove ==
  \E sq \in OwnSquares :
    LET candidates == movement_moves(board, sq[1], sq[2], board[sq[1]][sq[2]])
    IN  \E i \in 1 .. Len(candidates) :
          LET b == move_piece(board, sq[1], sq[2],
                              candidates[i][1], candidates[i][2])
          IN  /\ find_king(b, IF turn = "white" THEN "K" ELSE "k") # None
              /\ ~KingAttackedOn(b, turn)

\* C1: for every piece of the side to move and every destination that
\* get_valid_moves returns for it, the mover's king is not attacked by the
\* opponent once make_move has applied the move.
C1_ValidMovesKeepKingSafe ==
  ~raised =>
    \A sq \in OwnSquares :
      LET gv == get_valid_moves(board, turn, sq[1], sq[2])
      IN  ~gv.raised =>
            \A i \in 1 .. Len(gv.moves) :
              LET after == apply_move(Self, sq[1], sq[2],
                                      gv.moves[i][1], gv.moves[i][2])
                  king_pos == cached_king_pos(after, turn)
              IN  ~is_square_under_attack(after.board, king_pos[1],
                                          king_pos[2], other_color(turn)).result

\* C2: the board holds exactly one "K" and exactly one "k".
C2_OneKingOfEachColour ==
  /\ Cardinality({sq \in Idx \X Idx : board[sq[1]][sq[2]] = "K"}) = 1
  /\ Cardinality({sq \in Idx \X Idx : board[sq[1]][sq[2]] = "k"}) = 1

\* C3: white_king_pos is the square that holds "K" and black_king_pos is
\* the square that holds "k".
C3_KingPositionsCached ==
  /\ board[white_king_pos[1]][white_king_pos[2]] = "K"
  /\ board[black_king_pos[1]][black_king_pos[2]] = "k"

\* C4: after a move, if the king of the side to move is attacked and no
\* movement-rule move of that side leaves its king unattacked, then
\* game_over and check are both true.
C4_CheckmateDetected ==
  (moves > 0 /\ ~raised /\ KingAttackedOn(board, turn) /\ ~HasSafeMove)
    => (game_over /\ check)

\* C5: after a move, if the king of the side to move is on the board and not
\* attacked and no movement-rule move of that side leaves its king
\* unattacked, then game_over is true and check is false.
C5_StalemateDetected ==
  (moves > 0 /\ ~raised
   /\ find_king(board, IF turn = "white" THEN "K" ELSE "k") # None
   /\ ~KingAttackedOn(board, turn) /\ ~HasSafeMove)
    => (game_over /\ ~check)

\* C6: turn is "white" after an even number of make_move calls and "black"
\* after an odd number, and a step changes turn only if it calls make_move.
C6_TurnAlternates ==
  /\ [](turn = IF moves % 2 = 0 THEN "white" ELSE "black")
  /\ [][turn' # turn => moves' = moves + 1]_vars

C6_Witness == moves >= 3 /\ turn = "black" /\ ~raised

\* C7: in the initial state and after every completed make_move (and click),
\* check equals is_square_under_attack on the cached king position of the
\* side to move by the opposing colour, evaluated on the current board.
C7_CheckFlagMatchesAttack ==
  ~raised =>
    LET king_pos == IF turn = "white" THEN white_king_pos ELSE black_king_pos
    IN  check = is_square_under_attack(board, king_pos[1], king_pos[2],
                                       other_color(turn)).result

C7_Witness == check /\ moves > 0 /\ ~raised

\* C8: every would_be_in_check call that get_valid_moves makes in a
\* reachable state, and get_valid_moves itself, leaves the board as it was,
\* also when the mover's king is not found on the board.
C8_SpeculationRestoresBoard ==
  ~raised =>
    \A sq \in OwnSquares :
      LET piece == board[sq[1]][sq[2]]
          candidates == movement_moves(board, sq[1], sq[2], piece)
      IN  /\ get_valid_moves(board, turn, sq[1], sq[2]).board = board
          /\ ~returns_unfiltered(piece) =>
               \A i \in 1 .. Len(candidates) :
                 would_be_in_check(board, turn, sq[1], sq[2], candidates[i][1],
                                   candidates[i][2], piece).board = board

\* C9: no engine operation raises in any reachable state.
C9_NothingRaises == ~raised

\* C10: once game_over is true it stays true, and every later click leaves
\* board, turn, the king positions, last_move, check, selected_piece and
\* valid_moves unchanged.
C10_GameOverIsFinal ==
  [][game_over =>
       /\ game_over'
       /\ UNCHANGED <<board, turn, white_king_pos, black_king_pos, last_move,
                      check, selected_piece, valid_moves>>]_vars

C10_Witness == game_over /\ pending = <<>> /\ ~raised

\* the number of squares of the board that hold the given piece
count_of(piece) ==
  Cardinality({sq \in Idx \X Idx : board[sq[1]][sq[2]] = piece})

\* C11: after every make_move that returns, the destination holds "Q" if a
\* white pawn was moved onto row 0, "q" if a black pawn was moved onto row 7,
\* and otherwise the very piece that stood on the origin.
C11_Promotion ==
  [][(moves' = moves + 1 /\ ~raised') =>
       LET from == last_move'[1]
           to == last_move'[2]
           piece == board[from[1]][from[2]]
       IN  board'[to[1]][to[2]] =
             IF piece = "P" /\ to[1] = 0 THEN "Q"
             ELSE IF piece = "p" /\ to[1] = 7 THEN "q"
             ELSE piece]_vars

\* both sides have promoted, the last move being a black step onto row 7
C11_Witness ==
  /\ ~raised /\ last_move # None
  /\ last_move[1][1] = 6 /\ last_move[2][1] = 7
  /\ board[last_move[2][1]][last_move[2][2]] = "q"
  /\ count_of("q") = 2 /\ count_of("Q") = 2
\* C12: before the first move (the board is the initial one and White is to
\* move) get_valid_moves returns two destinations for each white pawn and
\* each white knight, none for any other white piece, 20 in total, and
\* the empty list for every black piece.
C12_TwentyOpeningMoves ==
  moves = 0 =>
    LET destinations(sq) == get_valid_moves(board, turn, sq[1], sq[2]).moves
        white == {sq \in Idx \X Idx : isupper(board[sq[1]][sq[2]])}
        black == {sq \in Idx \X Idx : islower(board[sq[1]][sq[2]])}
    IN  /\ board = initialize_board /\ turn = "white"
        /\ Cardinality(white) = 16 /\ Cardinality(black) = 16
        /\ \A sq \in white :
              Len(destinations(sq)) =
                IF board[sq[1]][sq[2]] \in {"P", "N"} THEN 2 ELSE 0
        /\ Cardinality(UNION {{<<sq, i>> : i \in 1 .. Len(destinations(sq))} :
                              sq \in white}) = 20
        /\ \A sq \in black : destinations(sq) = <<>>

\* a white knight is selected in the initial position and shows two moves
C12_Witness ==
  moves = 0 /\ selected_piece = <<7, 1>> /\ Len(valid_moves) = 2
\* C13: a call of is_square_under_attack leaves the board as it was,
\* whatever it answers, and a call with the arguments of the call before it
\* gives the same answer.
C13_AttackQueryLeavesBoard ==
  [][/\ board' = board
     /\ (probe # None /\ probe' # None
         /\ probe'[1].row = probe[1].row /\ probe'[1].col = probe[1].col
         /\ probe'[1].by_color = probe[1].by_color)
          => probe'[1].result = probe[1].result]_vars

\* the white king on e1 was found attacked by the black queen on h4: the
\* call returned True from inside the loop, the target square being occupied
C13_Witness ==
  /\ probe # None /\ board = FoolsMateBoard
  /\ probe[1] = [row |-> 7, col |-> 4, by_color |-> "black", result |-> TRUE]

\* C14: for every square that is empty or holds a piece of the side that is
\* not to move, get_valid_moves returns the empty list, raises nothing and
\* leaves the board as it was.
C14_NothingForOtherSquares ==
  \A sq \in Idx \X Idx :
    (board[sq[1]][sq[2]] = "" \/ ~OwnedBy(board[sq[1]][sq[2]], turn)) =>
      LET gv == get_valid_moves(board, turn, sq[1], sq[2])
      IN  gv.moves = <<>> /\ ~gv.raised /\ gv.board = board

\* Black is to move and a white piece could move by the movement rules
C14_Witness ==
  /\ ~raised /\ turn = "black"
  /\ \E sq \in Idx \X Idx :
       /\ isupper(board[sq[1]][sq[2]])
       /\ movement_moves(board, sq[1], sq[2], board[sq[1]][sq[2]]) # <<>>

\* the pieces of the given colour on board b are all pawns
only_pawns(b, color) ==
  \A sq \in Idx \X Idx :
    OwnedBy(b[sq[1]][sq[2]], color) => lower(b[sq[1]][sq[2]]) = "p"

\* C15: when the pieces of by_color are all pawns, is_square_under_attack
\* answers True exactly for the squares one row ahead of one of these pawns
\* (row - 1 for White, row + 1 for Black) and one column to its left or
\* right, whether or not the target square is occupied.
C15_PawnsAttackDiagonally ==
  (probe # None /\ only_pawns(board, probe[1].by_color)) =>
    probe[1].result =
      \E sq \in Idx \X Idx :
        /\ OwnedBy(board[sq[1]][sq[2]], probe[1].by_color)
        /\ probe[1].row =
             sq[1] + (IF probe[1].by_color = "white" THEN -1 ELSE 1)
        /\ probe[1].col \in {sq[2] - 1, sq[2] + 1}

\* a black pawn on (2, 4) attacks the occupied square (3, 3) while a pawn
\* stands straight ahead of it or of another black pawn
C15_Witness ==
  /\ probe # None /\ only_pawns(board, "black")
  /\ probe[1] = [row |-> 3, col |-> 3, by_color |-> "black", result |-> TRUE]
  /\ board[2][4] = "p" /\ board[3][3] = "P" /\ board[4][3] # ""
\* C16: after every make_move that returns, game_over is true exactly when
\* get_valid_moves returns the empty list for every piece of the side that
\* is now to move.
C16_GameOverMatchesGenerator ==
  (moves > 0 /\ ~raised) =>
    (game_over <=>
       \A sq \in OwnSquares :
         LET gv == get_valid_moves(board, turn, sq[1], sq[2])
         IN  ~gv.raised /\ gv.moves = <<>>)

\* the game is over although the side to move has pieces: the scan passed
\* every one of them
C16_Witness ==
  game_over /\ moves > 0 /\ ~raised /\ Cardinality(OwnSquares) >= 2
\* C17: valid_moves is empty whenever selected_piece is None; while a piece
\* is selected it belongs to the side to move and valid_moves is what
\* get_valid_moves returns for it on the current board and turn; and every
\* make_move goes from the selected square to one of these destinations.
C17_MovesComeFromCurrentGenerator ==
  /\ [](selected_piece = None => valid_moves = <<>>)
  /\ []((~raised /\ selected_piece # None) =>
          /\ OwnedBy(board[selected_piece[1]][selected_piece[2]], turn)
          /\ valid_moves = get_valid_moves(board, turn, selected_piece[1],
                                           selected_piece[2]).moves)
  /\ [][moves' = moves + 1 =>
          /\ selected_piece # None
          /\ last_move'[1] = selected_piece
          /\ OwnedBy(board[selected_piece[1]][selected_piece[2]], turn)
          /\ InList(last_move'[2],
                    get_valid_moves(board, turn, selected_piece[1],
                                    selected_piece[2]).moves)]_vars

\* after a move a piece of the other side is selected and has moves cached
C17_Witness ==
  moves > 0 /\ ~raised /\ selected_piece # None /\ valid_moves # <<>>
\* C18: a click that does not call make_move leaves board, turn, the king
\* positions, last_move, check and game_over unchanged.
C18_OnlyMakeMoveChangesGame ==
  [][moves' = moves =>
       UNCHANGED <<board, turn, white_king_pos, black_king_pos, last_move,
                   check, game_over>>]_vars

\* C19: a click that calls make_move(from, to) leaves `from` empty and a
\* piece of the mover's colour on `to`, sets last_move to (from, to) and
\* leaves every other square of the board as it was.
C19_MoveTouchesTwoSquares ==
  [][moves' = moves + 1 =>
       LET from == selected_piece
           to == last_move'[2]
       IN  /\ last_move'[1] = from
           /\ InList(to, valid_moves)
           /\ board'[from[1]][from[2]] = ""
           /\ OwnedBy(board'[to[1]][to[2]], turn)
           /\ \A sq \in Idx \X Idx :
                (sq # from /\ sq # to) =>
                  board'[sq[1]][sq[2]] = board[sq[1]][sq[2]]]_vars
\* the number of pieces on board b
pieces_on(b) == Cardinality({sq \in Idx \X Idx : b[sq[1]][sq[2]] # ""})

\* the number of pieces of the given colour on board b
pieces_of(b, color) ==
  Cardinality({sq \in Idx \X Idx : OwnedBy(b[sq[1]][sq[2]], color)})

\* C20: every destination that get_valid_moves returns for any square is on
\* the board, differs from the origin and is empty or holds a piece of the
\* side not to move, and moving the piece there keeps the number of the
\* mover's pieces and lowers the number of pieces by at most one; a move
\* committed by a click never lands on a piece of the mover; and no click
\* ever increases the number of pieces on the board.
C20_NoSelfCapture ==
  /\ [](\E total \in {pieces_on(board)}, own \in {pieces_of(board, turn)} :
          \A sq \in Idx \X Idx :
            \E gv \in {get_valid_moves(board, turn, sq[1], sq[2])} :
            \A to \in {gv.moves[i] : i \in 1 .. Len(gv.moves)} :
              /\ OnBoard(to[1], to[2]) /\ to # sq
              /\ \/ board[to[1]][to[2]] = ""
                 \/ OwnedBy(board[to[1]][to[2]], other_color(turn))
              /\ \E after \in {move_piece(board, sq[1], sq[2], to[1], to[2])} :
                   /\ pieces_of(after, turn) = own
                   /\ pieces_on(after) \in {total - 1, total})
  /\ [][moves' = moves + 1 =>
          ~OwnedBy(board[last_move'[2][1]][last_move'[2][2]], turn)]_vars
  /\ [][board' # board => pieces_on(board') <= pieces_on(board)]_vars

\* a piece has been taken and the selected piece can take another one
C20_Witness ==
  /\ ~raised /\ pieces_on(board) < 32
  /\ \E i \in 1 .. Len(valid_moves) :
       board[valid_moves[i][1]][valid_moves[i][2]] # ""
\* -1, 0 or 1 as n is negative, zero or positive
sign(n) == IF n < 0 THEN -1 ELSE IF n > 0 THEN 1 ELSE 0

\* the number of king steps from one square to another
distance(from, to) ==
  LET dr == IF to[1] >= from[1] THEN to[1] - from[1] ELSE from[1] - to[1]
      dc == IF to[2] >= from[2] THEN to[2] - from[2] ELSE from[2] - to[2]
  IN  IF dr >= dc THEN dr ELSE dc

\* `to` lies on a diagonal, or a row or column, through `from`, as the
\* directions of the piece allow
on_ray(piece, from, to) ==
  /\ to # from
  /\ \/ /\ lower(piece) \in {"b", "q"}
        /\ (to[1] - from[1] = to[2] - from[2]
            \/ to[1] - from[1] = from[2] - to[2])
     \/ /\ lower(piece) \in {"r", "q"}
        /\ (to[1] = from[1] \/ to[2] = from[2])

\* the squares a bishop, rook or queen on `from` reaches on board b: on one
\* of its rays, every square in between empty, and itself empty or holding
\* an opponent's piece
ray_destinations(b, from, piece) ==
  {to \in Idx \X Idx :
     /\ on_ray(piece, from, to)
     /\ \A k \in 1 .. (distance(from, to) - 1) :
          b[from[1] + k * sign(to[1] - from[1])]
           [from[2] + k * sign(to[2] - from[2])] = ""
     /\ (b[to[1]][to[2]] = "" \/ is_opponent(b, to[1], to[2], piece))}

\* the bishops, rooks and queens of the side to move
OwnSliders ==
  {sq \in OwnSquares : lower(board[sq[1]][sq[2]]) \in {"b", "r", "q"}}

\* the ray destinations of the bishop, rook or queen on sq after which, the
\* move applied, the king of the side to move is not attacked
safe_ray_destinations(sq) ==
  {to \in ray_destinations(board, sq, board[sq[1]][sq[2]]) :
     ~KingAttackedOn(move_piece(board, sq[1], sq[2], to[1], to[2]), turn)}

\* C21: while the king of the side to move is on the board, get_valid_moves
\* raises nothing for a bishop, rook or queen of that side and returns
\* exactly the ray destinations after which, the move applied, that king is
\* not attacked by the opponent. A click that selects leaves the board and
\* the turn as they are, so the call is made for every such piece where no
\* piece is selected or a call has raised, and where a bishop, rook or queen
\* is selected the list the program stored for it is compared.
C21_SlidersKeepKingSafe ==
  find_king(board, IF turn = "white" THEN "K" ELSE "k") # None =>
    /\ (selected_piece = None \/ raised) =>
         \A sq \in OwnSliders :
           \E gv \in {get_valid_moves(board, turn, sq[1], sq[2])} :
             /\ ~gv.raised
             /\ {gv.moves[i] : i \in 1 .. Len(gv.moves)}
                  = safe_ray_destinations(sq)
    /\ (~raised /\ selected_piece \in OwnSliders) =>
         {valid_moves[i] : i \in 1 .. Len(valid_moves)}
           = safe_ray_destinations(selected_piece)

\* the king of the side to move is in check and the selected bishop, rook or
\* queen has a move that ends the check and ray destinations that do not
C21_Witness ==
  /\ ~raised /\ check /\ selected_piece \in OwnSliders
  /\ valid_moves # <<>>
  /\ Len(valid_moves) <
       Cardinality(ray_destinations(board, selected_piece,
                     board[selected_piece[1]][selected_piece[2]]))

====
